---------------------------- MODULE Spec2Model ----------------------------
(***************************************************************************)
(* cloudflare-updater (src/main.py): the reconciliation loop that polls    *)
(* the public IP and pushes it to one or more Cloudflare DNS records.      *)
(*                                                                         *)
(* Python str values are sequences of one-character strings, so that       *)
(* strip(), lower() and truthiness are computed and not assumed.  None is  *)
(* a value that is no str.                                                 *)
(***************************************************************************)
EXTENDS Naturals, Sequences, FiniteSets, TLC

(* ------------------------------ bounds -------------------------------- *)

\* Highest numbered record the environment may define (index 0 stands for
\* the unnumbered variables API_TOKEN, ZONE_ID, RECORD_NAME, PROXIED).
MaxIndex == 2

\* Number of steady iterations a behaviour may start.
MaxIter == 3

(* --------------------------- Python values ---------------------------- *)

\* Python's None: distinct from every str, whose elements are single characters.
None == <<"<None>">>

\* `not x` for an Optional[str]: None and the empty string are falsy.
Falsy(x) == x = None \/ x = << >>

Whitespace == {" ", "\t", "\n", "\r"}

UpperCase == <<"A","B","C","D","E","F","G","H","I","J","K","L","M",
               "N","O","P","Q","R","S","T","U","V","W","X","Y","Z">>

LowerCase == <<"a","b","c","d","e","f","g","h","i","j","k","l","m",
               "n","o","p","q","r","s","t","u","v","w","x","y","z">>

\* str.lower() on one character.
LowerChar(c) ==
    IF \E i \in 1..Len(UpperCase) : UpperCase[i] = c
    THEN LowerCase[CHOOSE i \in 1..Len(UpperCase) : UpperCase[i] = c]
    ELSE c

\* str.lower()
Lower(s) == [i \in 1..Len(s) |-> LowerChar(s[i])]

RECURSIVE LStrip(_)
LStrip(s) ==
    IF s # << >> /\ Head(s) \in Whitespace THEN LStrip(Tail(s)) ELSE s

RECURSIVE RStrip(_)
RStrip(s) ==
    IF s # << >> /\ s[Len(s)] \in Whitespace
    THEN RStrip(SubSeq(s, 1, Len(s) - 1))
    ELSE s

\* str.strip()
Strip(s) == RStrip(LStrip(s))

TruthyStrings ==
    { <<"1">>, <<"t","r","u","e">>, <<"y","e","s">>, <<"y">>, <<"o","n">> }

\* parse_bool(value, default)
parse_bool(value, default) ==
    IF value = None THEN default ELSE Lower(Strip(value)) \in TruthyStrings

(* ---------------------------- environment ----------------------------- *)

Unset == [API_TOKEN |-> None, ZONE_ID |-> None, RECORD_NAME |-> None,
          PROXIED |-> None]

\* The variable groups an environment may hold for one index.
SampleEntries ==
    { Unset,
      [API_TOKEN |-> <<"t","A">>, ZONE_ID |-> <<"z","A">>,
       RECORD_NAME |-> <<"a">>, PROXIED |-> None],
      [API_TOKEN |-> <<"t","B">>, ZONE_ID |-> <<"z","B">>,
       RECORD_NAME |-> <<"b">>, PROXIED |-> <<"N","o">>],
      [API_TOKEN |-> None, ZONE_ID |-> <<"z","A">>,
       RECORD_NAME |-> <<"a">>, PROXIED |-> <<" ","O","N">>],
      [API_TOKEN |-> <<"t","A">>, ZONE_ID |-> << >>,
       RECORD_NAME |-> <<"a">>, PROXIED |-> None] }

Environments == [0..MaxIndex -> SampleEntries]

\* os.getenv(f'{field}_{index}'), and os.getenv(field) for index 0.
getenv(env, field, index) ==
    IF index \in DOMAIN env THEN env[index][field] ELSE None

\* The dict appended to records for the variables of one index.
RecordOf(env, index) ==
    [api_token   |-> getenv(env, "API_TOKEN", index),
     zone_id     |-> getenv(env, "ZONE_ID", index),
     record_name |-> getenv(env, "RECORD_NAME", index),
     proxied     |-> parse_bool(getenv(env, "PROXIED", index), TRUE)]

\* A slip: the test of the 'missing' list (`is None`) used for the record test.
FullySpecified_NoneOnly(env, index) ==
    /\ getenv(env, "API_TOKEN", index) # None
    /\ getenv(env, "ZONE_ID", index) # None
    /\ getenv(env, "RECORD_NAME", index) # None

\* `api_token and zone_id and record_name`
FullySpecified(env, index) ==
    /\ ~Falsy(getenv(env, "API_TOKEN", index))
    /\ ~Falsy(getenv(env, "ZONE_ID", index))
    /\ ~Falsy(getenv(env, "RECORD_NAME", index))

\* A slip: an incomplete index is skipped (`continue`) instead of ending
\* the scan (`break`).
RECURSIVE LoadFrom_SkipsGaps(_, _)
LoadFrom_SkipsGaps(env, index) ==
    IF index \notin DOMAIN env
    THEN << >>
    ELSE IF ~FullySpecified(env, index)
    THEN LoadFrom_SkipsGaps(env, index + 1)
    ELSE <<RecordOf(env, index)>> \o LoadFrom_SkipsGaps(env, index + 1)

RECURSIVE LoadFrom(_, _)
LoadFrom(env, index) ==
    IF ~FullySpecified(env, index)
    THEN << >>
    ELSE <<RecordOf(env, index)>> \o LoadFrom(env, index + 1)

\* load_multiple_records()
load_multiple_records(env) == LoadFrom(env, 1)


\* The record set of loop(): the numbered records, else the unnumbered one,
\* else nothing.
ConfiguredRecords(env) ==
    IF load_multiple_records(env) # << >>
    THEN load_multiple_records(env)
    ELSE IF FullySpecified(env, 0) THEN <<RecordOf(env, 0)>> ELSE << >>

(* ------------------------------ network ------------------------------- *)

IP1 == <<"1",".","1",".","1",".","1">>
IP2 == <<"2",".","2",".","2",".","2">>
IPs == {IP1, IP2}

RidA == <<"r","A">>
RidB == <<"r","B">>

\* A record of a lookup's result list that has no 'id' key.
NoIdKey == <<"<no id>">>

\* What a call returns to its caller: a value, or an exception that is not
\* a requests.exceptions.RequestException and so is not caught.
Return(v) == [raised |-> FALSE, value |-> v]
Raise == [raised |-> TRUE, value |-> None]

\* Responses of api.ipify.org: a transport error or error status, a body
\* that is no JSON, a JSON body that is no object, or a JSON object whose
\* 'ip' member is a str or absent.
IpResponses ==
    { [kind |-> k, ip |-> None] : k \in {"request_error", "bad_json", "not_object"} }
      \cup { [kind |-> "object", ip |-> v] : v \in IPs \cup {None} }

\* CloudflareUpdater.get_public_ip().  response.json() raises ValueError on
\* a body that is no JSON; whether that is a RequestException depends on the
\* installed requests, so both outcomes are possible.
get_public_ip(resp) ==
    CASE resp.kind = "request_error" -> {Return(None)}
      [] resp.kind = "bad_json"      -> {Return(None), Raise}
      [] resp.kind = "not_object"    -> {Raise}
      [] OTHER                       -> {Return(resp.ip)}

\* The 'result' lists a record lookup may answer with: the ids of the
\* matching records in the provider's order.
ResultLists == { << >>, <<RidA>>, <<RidB, RidA>>, << << >> >>, <<NoIdKey>> }

\* Responses to GET /zones/{zone_id}/dns_records.
LookupResponses ==
    { [kind |-> k, result |-> << >>] : k \in {"request_error", "bad_json", "not_object"} }
      \cup { [kind |-> "object", result |-> l] : l \in ResultLists }

\* A slip: the last record of the result list is taken (records[-1]).
get_dns_record_id_Last(resp) ==
    CASE resp.kind = "request_error" -> {Return(None)}
      [] resp.kind = "bad_json"      -> {Return(None), Raise}
      [] resp.kind = "not_object"    -> {Raise}
      [] OTHER ->
           IF resp.result = << >> THEN {Return(None)}
           ELSE IF resp.result[Len(resp.result)] = NoIdKey THEN {Raise}
           ELSE {Return(resp.result[Len(resp.result)])}

\* CloudflareUpdater.get_dns_record_id()
get_dns_record_id(resp) ==
    CASE resp.kind = "request_error" -> {Return(None)}
      [] resp.kind = "bad_json"      -> {Return(None), Raise}
      [] resp.kind = "not_object"    -> {Raise}
      [] OTHER ->
           IF resp.result = << >> THEN {Return(None)}
           ELSE IF resp.result[1] = NoIdKey THEN {Raise}
           ELSE {Return(resp.result[1])}

\* Responses to PUT /zones/{zone_id}/dns_records/{record_id}.
PutResponses == {"ok", "request_error"}

(* ------------------------------- state -------------------------------- *)

VARIABLES
    environ,            \* os.environ, per index
    pc,                 \* position of loop()
    exit_code,          \* the process's exit code once terminated
    records,            \* loop(): records
    updaters,           \* loop(): updaters
    current_ipaddress,  \* loop(): current_ipaddress
    new_ipaddress,      \* loop(): new_ipaddress
    first,              \* loop(): first
    idx,                \* position of `for updater in updaters`
    record_id,          \* update_dns_record(): record_id
    \* What an observer of the process records:
    iter,               \* steady iterations started
    n_resolve,          \* get_public_ip calls made
    slept,              \* seconds slept since the last get_public_ip call
    last_resolved,      \* the last IP a get_public_ip call returned
    resolved_iter,      \* the iteration of that call (0: the bootstrap)
    changed,            \* this iteration's IP differs from the one resolved before it
    succ_iters,         \* steady iterations whose resolution succeeded
    failed_write,       \* per target: the IP of a failed write not superseded since
    attempted,          \* the targets update_dns_record has been invoked for
    calls               \* the provider requests of the current iteration

prog == <<environ, pc, exit_code, records, updaters, current_ipaddress,
          new_ipaddress, first, idx, record_id>>

obs == <<iter, n_resolve, slept, last_resolved, resolved_iter, changed,
         succ_iters, failed_write, attempted, calls>>

vars == <<prog, obs>>

delay == 120

\* The process as loop() is entered, whatever the environment holds.
Start ==
    /\ pc = "load"
    /\ exit_code = 0
    /\ records = << >>
    /\ updaters = << >>
    /\ current_ipaddress = None
    /\ new_ipaddress = None
    /\ first = TRUE
    /\ idx = 0
    /\ record_id = None
    /\ iter = 0
    /\ n_resolve = 0
    /\ slept = 0
    /\ last_resolved = None
    /\ resolved_iter = 0
    /\ changed = FALSE
    /\ succ_iters = 0
    /\ failed_write = << >>
    /\ attempted = {}
    /\ calls = << >>

Init ==
    /\ environ \in Environments
    /\ Start

\* sys.exit(1), or an exception that leaves loop(): the interpreter exits
\* with status 1.
Terminate ==
    /\ pc' = "terminated"
    /\ exit_code' = 1

(* ------------------------------ startup ------------------------------- *)

\* loop(), lines 168-198: assemble the record set or exit.
LoadRecords ==
    /\ pc = "load"
    /\ IF ConfiguredRecords(environ) # << >>
       THEN /\ records' = ConfiguredRecords(environ)
            /\ pc' = "bootstrap"
            /\ UNCHANGED exit_code
       ELSE /\ Terminate
            /\ UNCHANGED records
    /\ UNCHANGED <<environ, updaters, current_ipaddress, new_ipaddress, first,
                   idx, record_id, obs>>

\* A slip: proxied is not passed on and keeps the constructor's default.
Updater_DefaultProxied(record) ==
    [api_token |-> record.api_token, zone_id |-> record.zone_id,
     record_name |-> record.record_name, proxied |-> TRUE]

\* CloudflareUpdater(...) for one record; api_url keeps its default.
Updater(record) ==
    [api_token |-> record.api_token, zone_id |-> record.zone_id,
     record_name |-> record.record_name, proxied |-> record.proxied]

\* A slip: the first resolution is tried again instead of exiting.
BootstrapFailed_Retry ==
    UNCHANGED <<pc, exit_code, updaters, current_ipaddress, first,
                last_resolved, failed_write>>

\* loop(), lines 203-205: no first IP.
BootstrapFailed ==
    /\ Terminate
    /\ UNCHANGED <<updaters, current_ipaddress, first, last_resolved, failed_write>>

\* loop(), lines 201 and 207-216: the baseline IP, the updaters, first.
BootstrapDone(ip) ==
    /\ current_ipaddress' = ip
    /\ updaters' = [i \in 1..Len(records) |-> Updater(records[i])]
    /\ first' = TRUE
    /\ pc' = "top"
    /\ last_resolved' = ip
    /\ failed_write' = [i \in 1..Len(records) |-> None]
    /\ UNCHANGED exit_code

\* loop(), lines 200-216.
Bootstrap ==
    /\ pc = "bootstrap"
    /\ n_resolve' = n_resolve + 1
    /\ \E resp \in IpResponses : \E r \in get_public_ip(resp) :
         IF r.raised \/ r.value = None
         THEN BootstrapFailed
         ELSE BootstrapDone(r.value)
    /\ UNCHANGED <<environ, records, new_ipaddress, idx, record_id, iter,
                   slept, resolved_iter, changed, succ_iters, attempted, calls>>

(* ---------------------------- steady loop ----------------------------- *)

\* loop(), lines 218-220: `if not first: time.sleep(delay)`.
IterationStart ==
    /\ pc = "top"
    /\ iter < MaxIter
    /\ iter' = iter + 1
    /\ slept' = IF ~first THEN slept + delay ELSE slept
    /\ calls' = << >>
    /\ changed' = FALSE
    /\ pc' = "resolve"
    /\ UNCHANGED <<environ, exit_code, records, updaters, current_ipaddress,
                   new_ipaddress, first, idx, record_id, n_resolve,
                   last_resolved, resolved_iter, succ_iters, failed_write,
                   attempted>>

\* get_public_ip raised inside the loop: nothing catches it.
ResolveRaised ==
    /\ Terminate
    /\ UNCHANGED <<new_ipaddress, first, idx, last_resolved, resolved_iter,
                   changed, succ_iters, failed_write>>

\* A slip: a failed resolution uses up the first pass.
ResolveFailed_ClearsFirst ==
    /\ new_ipaddress' = None
    /\ first' = FALSE
    /\ pc' = "top"
    /\ UNCHANGED <<exit_code, idx, last_resolved, resolved_iter,
                   changed, succ_iters, failed_write>>

\* loop(), lines 224-226: no IP; `continue`.
ResolveFailed ==
    /\ new_ipaddress' = None
    /\ pc' = "top"
    /\ UNCHANGED <<exit_code, first, idx, last_resolved, resolved_iter,
                   changed, succ_iters, failed_write>>

\* A slip: the comparison is inverted.
SameAsBefore_Inverted(new_ip, current_ip, is_first) ==
    new_ip # current_ip /\ ~is_first

\* loop(), line 228: the test that skips an iteration.
SameAsBefore(new_ip, current_ip, is_first) ==
    new_ip = current_ip /\ ~is_first

\* loop(), lines 222 and 228-232: an IP; skip it or start the pass.
Resolved(ip) ==
    /\ new_ipaddress' = ip
    /\ IF SameAsBefore(ip, current_ipaddress, first)
       THEN pc' = "top" /\ UNCHANGED idx
       ELSE pc' = "sync" /\ idx' = 1
    /\ last_resolved' = ip
    /\ resolved_iter' = iter
    /\ changed' = (ip # last_resolved)
    /\ succ_iters' = succ_iters + 1
    /\ failed_write' = [i \in DOMAIN failed_write |->
                          IF failed_write[i] = ip THEN failed_write[i] ELSE None]
    /\ UNCHANGED <<exit_code, first>>

\* loop(), lines 222-230.
Resolve ==
    /\ pc = "resolve"
    /\ n_resolve' = n_resolve + 1
    /\ slept' = 0
    /\ \E resp \in IpResponses : \E r \in get_public_ip(resp) :
         IF r.raised THEN ResolveRaised
         ELSE IF r.value = None THEN ResolveFailed
         ELSE Resolved(r.value)
    /\ UNCHANGED <<environ, records, updaters, current_ipaddress, record_id,
                   iter, attempted, calls>>

\* A slip: the stored IP is sent instead of the one just resolved.
PutData_Stale(updater, new_ip) ==
    [type |-> "A", name |-> updater.record_name,
     content |-> current_ipaddress, ttl |-> 120, proxied |-> updater.proxied]

\* The request body of update_dns_record.
PutData(updater, new_ip) ==
    [type |-> "A", name |-> updater.record_name, content |-> new_ip,
     ttl |-> 120, proxied |-> updater.proxied]

\* The lookup request of updaters[i], the result list of the response resp,
\* and what get_dns_record_id made of it: the id it returned, None, or an
\* exception.
GetCall(i, resp, r) ==
    [op |-> "GET", target |-> i, api_token |-> updaters[i].api_token,
     zone_id |-> updaters[i].zone_id, record_id |-> r.value,
     result |-> resp.result,
     params |-> [type |-> "A", name |-> updaters[i].record_name],
     outcome |-> IF r.raised THEN "raised"
                 ELSE IF r.value = None THEN "none" ELSE "id"]

\* A slip: the record is created (POST) instead of overwritten.
PutCall_Post(i, rid, new_ip, resp) ==
    [op |-> "POST", target |-> i, api_token |-> updaters[i].api_token,
     zone_id |-> updaters[i].zone_id, record_id |-> rid,
     data |-> PutData(updaters[i], new_ip),
     outcome |-> resp]

\* The write request of updaters[i] for new_ip to the record rid, and the
\* provider's answer.
PutCall(i, rid, new_ip, resp) ==
    [op |-> "PUT", target |-> i, api_token |-> updaters[i].api_token,
     zone_id |-> updaters[i].zone_id, record_id |-> rid,
     data |-> PutData(updaters[i], new_ip),
     outcome |-> resp]

\* A slip: the lookup's result is not tested.
HasRecordId_Always(rid) == TRUE

\* update_dns_record, line 86: `if not record_id` does not hold.
HasRecordId(rid) == ~Falsy(rid)

\* update_dns_record, lines 84-88 (get_dns_record_id, lines 49-77): look
\* the record up; return without writing when there is no id.
Lookup ==
    /\ pc = "sync"
    /\ idx <= Len(updaters)
    /\ \E resp \in LookupResponses : \E r \in get_dns_record_id(resp) :
         /\ calls' = Append(calls, GetCall(idx, resp, r))
         /\ IF r.raised
            THEN Terminate /\ UNCHANGED <<record_id, idx>>
            ELSE IF HasRecordId(r.value)
            THEN /\ record_id' = r.value
                 /\ pc' = "put"
                 /\ UNCHANGED <<exit_code, idx>>
            ELSE /\ idx' = idx + 1
                 /\ UNCHANGED <<exit_code, pc, record_id>>
    /\ attempted' = attempted \cup {idx}
    /\ UNCHANGED <<environ, records, updaters, current_ipaddress,
                   new_ipaddress, first, iter, n_resolve, slept,
                   last_resolved, resolved_iter, changed, succ_iters,
                   failed_write>>

\* update_dns_record, lines 90-111: write the record; a failure is logged.
Put ==
    /\ pc = "put"
    /\ \E resp \in PutResponses :
         /\ calls' = Append(calls, PutCall(idx, record_id, new_ipaddress, resp))
         /\ failed_write' =
              [failed_write EXCEPT ![idx] =
                 IF resp = "ok" THEN None ELSE new_ipaddress]
    /\ record_id' = None
    /\ idx' = idx + 1
    /\ pc' = "sync"
    /\ UNCHANGED <<environ, exit_code, records, updaters, current_ipaddress,
                   new_ipaddress, first, iter, n_resolve, slept,
                   last_resolved, resolved_iter, changed, succ_iters,
                   attempted>>

\* A slip: the pass does not store the IP it wrote.
EndIteration_KeepsIp ==
    /\ pc = "sync"
    /\ idx > Len(updaters)
    /\ current_ipaddress' = current_ipaddress
    /\ first' = FALSE
    /\ pc' = "top"
    /\ UNCHANGED <<environ, exit_code, records, updaters, new_ipaddress, idx,
                   record_id, obs>>

\* A slip: the pass does not clear the is-first flag.
EndIteration_KeepsFirst ==
    /\ pc = "sync"
    /\ idx > Len(updaters)
    /\ current_ipaddress' = new_ipaddress
    /\ first' = first
    /\ pc' = "top"
    /\ UNCHANGED <<environ, exit_code, records, updaters, new_ipaddress, idx,
                   record_id, obs>>

\* A slip: the stored IP is kept when a write of the pass failed.
EndIteration_KeepOnFailure ==
    /\ pc = "sync"
    /\ idx > Len(updaters)
    /\ current_ipaddress' =
         IF \E k \in DOMAIN calls : calls[k].outcome = "request_error"
         THEN current_ipaddress ELSE new_ipaddress
    /\ first' = FALSE
    /\ pc' = "top"
    /\ UNCHANGED <<environ, exit_code, records, updaters, new_ipaddress, idx,
                   record_id, obs>>

\* loop(), lines 235-236: the pass is over.
EndIteration ==
    /\ pc = "sync"
    /\ idx > Len(updaters)
    /\ current_ipaddress' = new_ipaddress
    /\ first' = FALSE
    /\ pc' = "top"
    /\ UNCHANGED <<environ, exit_code, records, updaters, new_ipaddress, idx,
                   record_id, obs>>

(* ------------------------ record-set assembly ------------------------- *)

\* Every way to set, set empty or leave unset the three required variables
\* of one index.
ConfigEntries ==
    [API_TOKEN : {None, << >>, <<"t">>}, ZONE_ID : {None, << >>, <<"z">>},
     RECORD_NAME : {None, << >>, <<"n">>}, PROXIED : {None}]

ConfigEnvironments == [0..MaxIndex -> ConfigEntries]

InitConfig ==
    /\ environ \in ConfigEnvironments
    /\ Start

\* loop() up to line 198 only.
NextConfig == LoadRecords

SpecConfig == InitConfig /\ [][NextConfig]_vars

(* ----------------------------- proxy flag ----------------------------- *)

\* Longest PROXIED value built from the alphabet.
MaxStrLen == 3

ProxiedAlphabet == {"o", "n", "N", "y", "Y", "e", "s", "1", "0", " ", "\t"}

\* PROXIED values: unset, every string over the alphabet up to MaxStrLen,
\* and some longer words.
ProxiedValues ==
    {None}
      \cup UNION { [1..n -> ProxiedAlphabet] : n \in 0..MaxStrLen }
      \cup { <<"t","r","u","e">>, <<"T","r","u","e">>, <<" ","T","R","U","E","\n">>,
             <<"f","a","l","s","e">>, <<"F","a","l","s","e">>, <<"t","r","u","e","s">> }

\* One numbered record, complete, with any PROXIED_1.
InitProxied ==
    /\ \E v \in ProxiedValues :
          environ = [i \in 0..MaxIndex |->
                       IF i = 1
                       THEN [API_TOKEN |-> <<"t","A">>, ZONE_ID |-> <<"z","A">>,
                             RECORD_NAME |-> <<"a">>, PROXIED |-> v]
                       ELSE Unset]
    /\ Start

\* loop() up to line 198 only.
NextProxied == LoadRecords

SpecProxied == InitProxied /\ [][NextProxied]_vars

(* --------------------------- specification ---------------------------- *)

Next ==
    \/ LoadRecords
    \/ Bootstrap
    \/ IterationStart
    \/ Resolve
    \/ Lookup
    \/ Put
    \/ EndIteration

Spec == Init /\ [][Next]_vars

(* ----------------------------- properties ----------------------------- *)

SteadyPcs == {"top", "resolve", "sync", "put"}

\* The current iteration made a provider request.
ProviderCalled == calls # << >>

\* The current iteration's get_public_ip call returned an IP.
ResolvedThisIteration == iter >= 1 /\ resolved_iter = iter

\* A step that sends a provider request on behalf of target t.
CallsTarget(t) ==
    /\ Len(calls') = Len(calls) + 1
    /\ calls'[Len(calls')].target = t

\* A value of the environment that is present and not empty.
Present(v) == v # None /\ Len(v) > 0

\* The variables of index i name a token, a zone and a record.
Specifies(i) ==
    /\ Present(environ[i].API_TOKEN)
    /\ Present(environ[i].ZONE_ID)
    /\ Present(environ[i].RECORD_NAME)

\* C1, as stated: an iteration makes a provider request only if it is the
\* first steady iteration or its IP differs from the IP resolved before it.
C1_FirstIterationOrChange ==
    ProviderCalled => (iter = 1 \/ changed)

\* C1, amended: an iteration makes a provider request only if its resolution
\* succeeded and it is the first steady iteration whose resolution succeeded
\* or its IP differs from the IP resolved before it (the bootstrap's
\* included); every other iteration makes none.
C1_FirstResolvedOrChange ==
    ProviderCalled => (ResolvedThisIteration /\ (succ_iters = 1 \/ changed))

\* C1 witness: a later iteration resolved the same IP again and ended
\* without a provider request.
C1_Witness ==
    /\ pc = "top"
    /\ ResolvedThisIteration
    /\ succ_iters >= 2
    /\ ~changed
    /\ ~ProviderCalled

\* C2: once an iteration has sent a provider request and is no longer
\* synchronizing, every target of the record set has been looked up in it.
C2_EveryTargetAttempted ==
    (ProviderCalled /\ pc \notin {"sync", "put"}) =>
        \A i \in 1..Len(updaters) :
            \E k \in DOMAIN calls : calls[k].op = "GET" /\ calls[k].target = i

\* C3: a steady iteration whose get_public_ip returns None leaves
\* current_ipaddress and first as they were and sends no provider request.
C3_FailedResolutionFrame ==
    [][ (pc = "resolve" /\ new_ipaddress' = None /\ pc' # "terminated") =>
          /\ current_ipaddress' = current_ipaddress
          /\ first' = first
          /\ calls' = << >>
          /\ pc' = "top" ]_vars

\* C3 witness: after a pass for a changed IP, an iteration failed to
\* resolve and is over.
C3_Witness ==
    /\ pc = "top"
    /\ iter >= 2
    /\ resolved_iter < iter
    /\ new_ipaddress = None
    /\ ~first
    /\ current_ipaddress = IP2

\* C4: every write of an iteration carries the IP that the get_public_ip
\* call of this same iteration returned.
C4_WritesFreshIp ==
    \A k \in DOMAIN calls :
        calls[k].op = "PUT" =>
            /\ ResolvedThisIteration
            /\ calls[k].data.content = last_resolved

\* C4 witness: a write was sent whose IP is not the stored one.
C4_Witness ==
    \E k \in DOMAIN calls :
        /\ calls[k].op = "PUT"
        /\ calls[k].data.content # current_ipaddress
        /\ pc = "sync"

\* C5: when the first get_public_ip call of loop() gives no IP the process
\* terminates with a non-zero exit code, having resolved once, started no
\* steady iteration and sent no provider request.
C5_BootstrapFailureFatal ==
    /\ [][ (pc = "bootstrap" /\ current_ipaddress' = None) =>
             /\ pc' = "terminated"
             /\ exit_code' # 0 ]_vars
    /\ [](n_resolve >= 1 /\ current_ipaddress = None =>
             /\ pc = "terminated"
             /\ exit_code # 0
             /\ n_resolve = 1
             /\ iter = 0
             /\ calls = << >>)

\* C5 witness: the record set was assembled, the one resolution failed and
\* the process is gone.
C5_Witness ==
    /\ pc = "terminated"
    /\ records # << >>
    /\ current_ipaddress = None
    /\ n_resolve = 1

\* C6: when neither index 1 nor the unnumbered variables name a token, a
\* zone and a record, loop() terminates with a non-zero exit code before any
\* resolution, iteration or provider request; and in the steady loop the
\* record set is never empty.
C6_MissingConfigurationFatal ==
    /\ (pc # "load" /\ ~Specifies(1) /\ ~Specifies(0)) =>
          /\ pc = "terminated"
          /\ exit_code # 0
          /\ n_resolve = 0
          /\ iter = 0
          /\ calls = << >>
    /\ pc \in SteadyPcs => (records # << >> /\ updaters # << >>)

\* C6 witness: index 2 is complete, index 1 and the unnumbered variables
\* are not (an empty ZONE_ID), and the process is gone.
C6_Witness ==
    /\ pc = "terminated"
    /\ Specifies(2)
    /\ environ[0].ZONE_ID = << >>
    /\ ~Specifies(1)

\* C7: a write request directly follows the lookup of the same target, and
\* that lookup returned the identifier the write names; a target whose
\* lookup returned none gets no write in the iteration.
C7_WriteOnlyAfterLookup ==
    /\ \A k \in DOMAIN calls :
          calls[k].op = "PUT" =>
              /\ k > 1
              /\ calls[k - 1].op = "GET"
              /\ calls[k - 1].target = calls[k].target
              /\ calls[k - 1].outcome = "id"
              /\ Present(calls[k - 1].record_id)
              /\ calls[k].record_id = calls[k - 1].record_id
    /\ \A k \in DOMAIN calls :
          (calls[k].op = "GET" /\ calls[k].outcome # "id") =>
              \A j \in DOMAIN calls :
                  ~(calls[j].op = "PUT" /\ calls[j].target = calls[k].target)

\* C7 witness: the first target's lookup returned none and the pass went on
\* to look up and write the second.
C7_Witness ==
    /\ Len(calls) = 3
    /\ calls[1].op = "GET" /\ calls[1].outcome = "none"
    /\ calls[2].op = "GET" /\ calls[2].target = 2
    /\ calls[3].op = "PUT" /\ calls[3].target = 2

\* C8: once a steady iteration has started the process never terminates.
C8_LoopNeverTerminates ==
    iter >= 1 => pc # "terminated"

\* C9: every steady iteration after the first has slept the interval since
\* the previous get_public_ip call when it resolves the IP.
C9_SleepBeforeEveryLaterResolution ==
    (pc = "resolve" /\ iter > 1) => slept >= delay

\* C10: an iteration that synchronized ends with current_ipaddress equal to
\* the IP it resolved, whatever its lookups and writes came to; and a target
\* whose write for an IP failed gets no request while later resolutions
\* return that IP.
C10_NoRetryOfFailedWrite ==
    /\ [](pc = "top" /\ ProviderCalled =>
            /\ ResolvedThisIteration
            /\ current_ipaddress = last_resolved)
    /\ [][ \A t \in DOMAIN failed_write :
              failed_write[t] # None => ~CallsTarget(t) ]_vars

\* C10 witness: a target's write failed in an earlier pass, and a later
\* iteration resolved the same IP and ended without a request.
C10_Witness ==
    /\ pc = "top"
    /\ ResolvedThisIteration
    /\ ~ProviderCalled
    /\ \E t \in DOMAIN failed_write : failed_write[t] = last_resolved

\* C11: an iteration that resolved an IP and is the first steady iteration,
\* or resolved an IP other than the one resolved before it, has looked up
\* every target of the record set when it is over.
C11_PassOverAllTargets ==
    (/\ pc \in {"top", "terminated"}
     /\ ResolvedThisIteration
     /\ (iter = 1 \/ changed)) =>
        \A t \in DOMAIN updaters :
            \E k \in DOMAIN calls : calls[k].op = "GET" /\ calls[k].target = t

\* The same for the iterations none of whose lookups raised.
C11_PassUnlessRaised ==
    (/\ pc \in {"top", "terminated"}
     /\ ResolvedThisIteration
     /\ (iter = 1 \/ changed)
     /\ \A k \in DOMAIN calls : calls[k].outcome # "raised") =>
        \A t \in DOMAIN updaters :
            \E k \in DOMAIN calls : calls[k].op = "GET" /\ calls[k].target = t

\* The positions in calls of the requests of kind op made for target t.
RequestsOf(op, t) ==
    { k \in DOMAIN calls : calls[k].op = op /\ calls[k].target = t }

\* The environment's variables that target t was assembled from.
TargetEnv(t) == IF Specifies(1) THEN environ[t] ELSE environ[0]

\* C12: the requests of one pass follow the record set's order; a target
\* gets at most one lookup and one write, and exactly one lookup once the
\* pass is over; each write carries its own target's token, zone, name and
\* proxy flag, type A, ttl 120 and the IP resolved in this iteration; and
\* for two targets flagged true and false whose lookups returned an id, a
\* changed IP gives exactly two writes, proxied true and false.
C12_OnePassPerTarget ==
    /\ \A j, k \in DOMAIN calls : j < k => calls[j].target <= calls[k].target
    /\ \A t \in DOMAIN updaters :
          /\ Cardinality(RequestsOf("GET", t)) <= 1
          /\ Cardinality(RequestsOf("PUT", t)) <= 1
          /\ (pc = "top" /\ ProviderCalled) =>
                Cardinality(RequestsOf("GET", t)) = 1
    /\ \A k \in DOMAIN calls :
          calls[k].op = "PUT" =>
              /\ calls[k].api_token = TargetEnv(calls[k].target).API_TOKEN
              /\ calls[k].zone_id = TargetEnv(calls[k].target).ZONE_ID
              /\ calls[k].data.name = TargetEnv(calls[k].target).RECORD_NAME
              /\ calls[k].data.proxied = records[calls[k].target].proxied
              /\ calls[k].data.type = "A"
              /\ calls[k].data.ttl = 120
              /\ calls[k].data.content = last_resolved
    /\ (/\ pc = "top" /\ changed
        /\ Len(records) = 2 /\ records[1].proxied /\ ~records[2].proxied
        /\ \A k \in DOMAIN calls :
              calls[k].op = "GET" =>
                  calls[k].outcome = "id" /\ Present(calls[k].record_id)) =>
          /\ Len(calls) = 4
          /\ calls[2].op = "PUT" /\ calls[2].target = 1 /\ calls[2].data.proxied
          /\ calls[4].op = "PUT" /\ calls[4].target = 2 /\ ~calls[4].data.proxied

\* C12 witness: a pass for a changed IP over two targets, flagged true and
\* false, is over and wrote both.
C12_Witness ==
    /\ pc = "top"
    /\ changed
    /\ Len(calls) = 4
    /\ calls[2].op = "PUT" /\ calls[2].data.proxied
    /\ calls[4].op = "PUT" /\ ~calls[4].data.proxied
    /\ calls[2].data.content = calls[4].data.content

(* The provider, as far as idempotence needs it: a zone's records are pairs *)
(* <<id, data>>; an applied PUT replaces the data under its id, an applied  *)
(* POST adds a record under a new id, and a request that was not applied,   *)
(* like every GET, changes nothing.                                         *)

OldData(ip) ==
    [type |-> "A", name |-> <<"o","l","d">>, content |-> ip, ttl |-> 1,
     proxied |-> FALSE]

\* The zones a pass may find: a record under each known id.
ProviderStates ==
    { { <<RidA, OldData(a)>>, <<RidB, OldData(b)>> } : a \in IPs, b \in IPs }

NewId(zone) == [i \in 1..(Cardinality(zone) + 1) |-> "n"]

Applied(zone, call) ==
    IF call.op = "PUT"
    THEN { rec \in zone : rec[1] # call.record_id }
            \cup { <<call.record_id, call.data>> }
    ELSE IF call.op = "POST"
    THEN zone \cup { <<NewId(zone), call.data>> }
    ELSE zone

\* The zones a request may leave behind: a request answered ok was applied,
\* one that failed may or may not have been.
After(zone, call) ==
    IF call.op = "GET" THEN {zone}
    ELSE IF call.outcome = "ok" THEN {Applied(zone, call)}
    ELSE {zone, Applied(zone, call)}

\* The positions in calls of the write requests made for target t.
WritesOf(t) == { k \in DOMAIN calls : calls[k].op # "GET" /\ calls[k].target = t }

\* Targets t and t + 1 are the same record target and update_dns_record has
\* returned for both in this pass, the first having written the record.
CalledTwice(t) ==
    /\ t + 1 \in DOMAIN updaters
    /\ updaters[t] = updaters[t + 1]
    /\ pc \in {"sync", "top"}
    /\ idx > t + 1
    /\ \E k \in WritesOf(t) : calls[k].outcome = "ok"

\* C13: when update_dns_record(x) is invoked twice in a row for one record
\* target, the provider answering both lookups alike, and the first call
\* wrote the record, then whatever the second call's requests come to the
\* zone is after the second call as it was after the first: the record
\* holds x, ttl 120 and the target's proxy flag.
C13_UpdateIdempotent ==
    \A t \in DOMAIN updaters :
        CalledTwice(t) =>
            \A k1 \in WritesOf(t) : \A k2 \in WritesOf(t + 1) :
                calls[k2 - 1].result = calls[k1 - 1].result =>
                    \A zone0 \in ProviderStates :
                        \A zone1 \in After(zone0, calls[k1]) :
                            \A zone2 \in After(zone1, calls[k2]) :
                                /\ zone2 = zone1
                                /\ <<calls[k1].record_id,
                                     [type |-> "A",
                                      name |-> updaters[t].record_name,
                                      content |-> last_resolved,
                                      ttl |-> 120,
                                      proxied |-> updaters[t].proxied]>>
                                      \in zone2

\* C13 witness: two equal targets were both written in one pass, under the
\* same record id.
C13_Witness ==
    /\ CalledTwice(1)
    /\ Len(calls) = 4
    /\ calls[4].op = "PUT"
    /\ calls[4].record_id = calls[2].record_id
    /\ calls[4].outcome = "request_error"

\* The number of leading numbered indices that name a token, a zone and a
\* record: the largest k with every index 1..k complete.
LeadingSpecified ==
    CHOOSE k \in 0..MaxIndex :
        /\ \A i \in 1..k : Specifies(i)
        /\ k < MaxIndex => ~Specifies(k + 1)

\* records[j] holds the token, zone and name of index i.
RecordFrom(j, i) ==
    /\ records[j].api_token = environ[i].API_TOKEN
    /\ records[j].zone_id = environ[i].ZONE_ID
    /\ records[j].record_name = environ[i].RECORD_NAME

\* C14: the record set is the numbered records 1..k, k the number of
\* leading complete indices, so indices above a gap are left out; with
\* k >= 1 the unnumbered record is not used, with k = 0 it is the record set
\* when it is complete, and otherwise the record set is empty.
C14_RecordSetAssembly ==
    pc # "load" =>
        IF LeadingSpecified >= 1
        THEN /\ Len(records) = LeadingSpecified
             /\ \A i \in 1..LeadingSpecified : RecordFrom(i, i)
        ELSE IF Specifies(0)
        THEN Len(records) = 1 /\ RecordFrom(1, 0)
        ELSE records = << >> /\ pc = "terminated"

\* C14 witness: index 1 lacks a variable, index 2 and the unnumbered record
\* are complete, and the record set is the unnumbered record alone.
C14_Witness ==
    /\ pc = "bootstrap"
    /\ Specifies(0)
    /\ ~Specifies(1)
    /\ Specifies(2)
    /\ Len(records) = 1
    /\ RecordFrom(1, 0)

\* The words the proxy flag recognizes, in lower and in upper case.
TruthyWords ==
    { <<"1", "1">>, <<"true", "TRUE">>, <<"yes", "YES">>, <<"y", "Y">>,
      <<"on", "ON">> }

\* The characters of a word, as one-character strings.
Letters(w) ==
    CASE w = "1"    -> <<"1">>
      [] w = "true" -> <<"t","r","u","e">>
      [] w = "TRUE" -> <<"T","R","U","E">>
      [] w = "yes"  -> <<"y","e","s">>
      [] w = "YES"  -> <<"Y","E","S">>
      [] w = "y"    -> <<"y">>
      [] w = "Y"    -> <<"Y">>
      [] w = "on"   -> <<"o","n">>
      [] w = "ON"   -> <<"O","N">>

\* v is one of the recognized words, whatever the case of its letters.
Recognized(v) ==
    /\ v # None
    /\ \E w \in TruthyWords :
          /\ Len(v) = Len(Letters(w[1]))
          /\ \A i \in 1..Len(v) :
                v[i] = Letters(w[1])[i] \/ v[i] = Letters(w[2])[i]

\* C15: the proxy flag of a record is true when PROXIED is a recognized
\* word, true when PROXIED is unset, and true when PROXIED is set to
\* anything else.
C15_ProxyFlagDefaultsTrue ==
    pc # "load" =>
        /\ Recognized(environ[1].PROXIED) => records[1].proxied
        /\ environ[1].PROXIED = None => records[1].proxied
        /\ (environ[1].PROXIED # None /\ ~Recognized(environ[1].PROXIED)) =>
              records[1].proxied

\* What the code does hold to: true for a recognized word and when unset.
C15_RecognizedOrUnset ==
    pc # "load" =>
        /\ Recognized(environ[1].PROXIED) => records[1].proxied
        /\ environ[1].PROXIED = None => records[1].proxied

\* C16: every write names the id of the first record of the result list
\* that the lookup of the same invocation, the request right before it, was
\* answered with; and no id is kept from one invocation to the next.
C16_WriteUsesOwnLookup ==
    /\ \A k \in DOMAIN calls :
          calls[k].op = "PUT" =>
              /\ k > 1
              /\ calls[k - 1].op = "GET"
              /\ calls[k - 1].target = calls[k].target
              /\ calls[k - 1].result # << >>
              /\ calls[k].record_id = calls[k - 1].result[1]
    /\ pc # "put" => record_id = None

\* C16 witness: one record target was synchronized twice in a pass; the
\* provider listed another record first the second time and the second
\* write went to that one.
C16_Witness ==
    /\ Len(calls) = 4
    /\ updaters[1] = updaters[2]
    /\ calls[2].op = "PUT" /\ calls[2].record_id = RidA
    /\ calls[3].result = <<RidB, RidA>>
    /\ calls[4].op = "PUT" /\ calls[4].record_id = RidB

\* The program is one thread that keeps executing and every network call
\* returns: a step that is possible is eventually taken.
SpecLive == Spec /\ WF_vars(Next)

\* C17: once a resolution of the steady loop has succeeded, update_dns_record
\* is eventually invoked for every target of the record set.
C17_EveryTargetEventuallyAttempted ==
    (succ_iters >= 1) ~> (attempted = DOMAIN updaters)

\* The same, unless a lookup raised and ended the program.
C17_AttemptedUnlessRaised ==
    (succ_iters >= 1) ~>
        \/ attempted = DOMAIN updaters
        \/ /\ pc = "terminated"
           /\ \E k \in DOMAIN calls : calls[k].outcome = "raised"

\* C18: the is-first flag is cleared only by the step that ends a pass, a
\* pass being an iteration that made provider requests; once cleared it is
\* never set; it is still set while no steady resolution has succeeded and
\* cleared at every later iteration boundary; and a pass whose resolved IP
\* equals the last-known one happens only in the first steady iteration
\* whose resolution succeeded.
C18_FirstFlagConsumedByPass ==
    /\ [][ /\ (first /\ ~first') =>
                 (pc = "sync" /\ pc' = "top" /\ ProviderCalled)
           /\ ~first => ~first' ]_vars
    /\ [](succ_iters = 0 => first)
    /\ []((pc \in {"top", "resolve"} /\ succ_iters >= 1) => ~first)
    /\ []((ProviderCalled /\ ~changed) => succ_iters = 1)

\* C18 witness: the first steady iterations failed to resolve, then one
\* resolved the last-known IP, made its pass and cleared the flag.
C18_Witness ==
    /\ pc = "top"
    /\ iter >= 2
    /\ succ_iters = 1
    /\ resolved_iter = iter
    /\ ~changed
    /\ ProviderCalled
    /\ ~first

\* C19: at every iteration boundary of the steady loop, and until the
\* iteration's resolution, the last-known IP is not None and equals the IP
\* of the most recent successful resolution, the bootstrap's included.
C19_LastKnownIsLastResolved ==
    pc \in {"top", "resolve"} =>
        /\ current_ipaddress # None
        /\ current_ipaddress = last_resolved

\* C19 witness: of three steady iterations one failed to resolve, one made
\* a pass and the last one was skipped as equal.
C19_Witness ==
    /\ pc = "top"
    /\ iter = 3
    /\ succ_iters = 2
    /\ resolved_iter = 3
    /\ ~ProviderCalled
    /\ current_ipaddress = last_resolved

=============================================================================
